---- MODULE Spec2Model ----
(***************************************************************************)
(* The deterministic vehicle simulation core (f1::SimulationCore) and its  *)
(* C API (the f1sim functions), as a state machine.                        *)
(*                                                                         *)
(* Numbers.  The code computes in 32-bit floats; the model computes in     *)
(* integers over scaled units: one time unit is one fixed step (fixed_dt), *)
(* driver inputs are in 1/InputScale of full travel, curvature is in       *)
(* 1/CurvScale, and every quotient is rounded toward zero (TruncDiv).      *)
(* max_cars is ConfigMaxCars; the car configuration, the track             *)
(* configuration and replay_capacity_steps are drawn at create.            *)
(* Car indices are 0-based as in the code; column k of the SoA is held at  *)
(* sequence position k + 1.                                                *)
(***************************************************************************)
EXTENDS Integers, Sequences, FiniteSets, TLC

(***************************************************************************)
(* Bounds of the exploration.                                              *)
(***************************************************************************)
MaxCapacity == 2
MaxLap == 1
MaxLapTime == 3
MaxBatchLaps == 2
\* The count of steps since a car's last line crossing stops here.
MaxSince == 15
\* Magnitude beyond which a float accumulator no longer grows by one step's
\* increment (the increment is below half a unit in the last place).
FloatAbsorb == 12

(***************************************************************************)
(* Program constants (scaled to the model's units).                        *)
(***************************************************************************)
\* max_cars of the SimConfig a caller passes to create (20, scaled).
ConfigMaxCars == 2
\* Number of entries of the gear-ratio table (8, scaled).
kMaxGears == 3
kAirDensity == 1
kGravity == 1
kMinRpm == 4
kMaxRpm == 13
ScrubCoeff == 4
LoadMinLength == 1
\* Number of values of the std::uint32_t lap counter (2^32, scaled).
LapModulus == 8
\* std::numeric_limits<float>::max()
FloatMax == 1000000
\* The batch driver (lines 220-222): curvature thresholds 0.02 and 0.05,
\* brake trigger speed, part throttle 0.6, brake 0.55, steer gain 60.
CurvLow == 2
CurvHigh == 5
BatchBrakeSpeed == 4
BatchThrottlePart == 12
BatchBrake == 11
BatchSteerGain == 60
\* Tolerances of the determinism check: below one unit of the model.
SpeedTol == 1
ArcTol == 1

\* fixed_dt of SimConfig: one time unit per step.
FixedDt == 1
\* Full travel of a driver input (1.0f) in input units.
InputScale == 20
\* One unit of curvature (1/m) in curvature units.
CurvScale == 100

Abs(a) == IF a < 0 THEN -a ELSE a

\* Float quotient, rounded toward zero.
TruncDiv(a, b) == IF a >= 0 THEN a \div b ELSE -((-a) \div b)

\* std::max / std::min on two values.
Max2(a, b) == IF a < b THEN b ELSE a
Min2(a, b) == IF b < a THEN b ELSE a

clampf(x, lo, hi) == Max2(lo, Min2(hi, x))

\* Float accumulation a += d.
FAcc(a, d) == IF Abs(a + d) > FloatAbsorb THEN a ELSE a + d

\* The element of a one-element set.  "The({e(x) : x \in {v}})" is e with x
\* holding the value of v, computed once as a local of the code is.
The(S) == CHOOSE x \in S : TRUE

(***************************************************************************)
(* Configuration values.                                                   *)
(***************************************************************************)
\* DriverInput{0.0f, 0.0f, 0.0f}
ZeroInput == [throttle |-> 0, brake |-> 0, steer |-> 0]

\* A car configuration a caller passes to create, the powertrain's fields
\* beside the others: a gear-ratio table of kMaxGears entries, all in use.
CarCfg ==
  [mass_kg |-> 8, wheelbase_m |-> 2, tire_radius_m |-> 1,
   mu_long |-> 4, mu_lat |-> 2, cdA |-> 1, clA |-> 1,
   rolling_resistance |-> 8, brake_force_max_n |-> 40, steer_gain |-> 200,
   gear_ratios |-> <<3, 2, 1>>, gear_count |-> 3,
   final_drive |-> 1, driveline_efficiency |-> 1,
   shift_rpm_up |-> 11, shift_rpm_down |-> 6,
   torque_curve |-> << [rpm |-> 4, torque_nm |-> 16],
                       [rpm |-> 8, torque_nm |-> 24],
                       [rpm |-> 13, torque_nm |-> 20] >>]

\* Track configurations a caller may pass to create.  nodes is the node
\* array, node_count the count the caller states, length_m the loop length.
TrackLoop ==
  [nodes |-> << [s |-> 0, curvature |-> 0], [s |-> 2, curvature |-> 30] >>,
   node_count |-> 2, length_m |-> 5]
TrackOneNode ==
  [nodes |-> << [s |-> 0, curvature |-> 0] >>, node_count |-> 1, length_m |-> 5]
TrackZeroLength ==
  [nodes |-> << [s |-> 0, curvature |-> 0], [s |-> 1, curvature |-> 30] >>,
   node_count |-> 2, length_m |-> 0]
TrackConfigs == {TrackLoop, TrackOneNode, TrackZeroLength}

\* A loop short enough for a car at speed to cross the line more than once
\* in one step.
TrackShort ==
  [nodes |-> << [s |-> 0, curvature |-> 0], [s |-> 1, curvature |-> 0] >>,
   node_count |-> 2, length_m |-> 2]

\* A default-constructed TrackProfile: no nodes, length_m_ = 0.
EmptyProfile == [s_nodes |-> <<>>, curvature |-> <<>>, length_m |-> 0]

\* TrackProfile::Load: the profile after the call.  A rejected
\* configuration leaves the profile as it was.
LoadOk(cfg) == ~(cfg.node_count < 2 \/ cfg.length_m <= LoadMinLength)
Load(profile, cfg) ==
  IF ~LoadOk(cfg) THEN profile
  ELSE [s_nodes |-> [i \in 1..cfg.node_count |-> cfg.nodes[i].s],
        curvature |-> [i \in 1..cfg.node_count |-> cfg.nodes[i].curvature],
        length_m |-> cfg.length_m]

\* TrackProfile::wrap_s for length_m_ > 0 (both loops, closed form).
wrap_s(profile, s) ==
  IF profile.length_m <= 0 THEN 0 ELSE s % profile.length_m

\* TrackProfile::sample on the curvature column.
curvature(profile, s_m) ==
  IF profile.s_nodes = <<>> THEN 0
  ELSE
    LET s == wrap_s(profile, s_m)
        n == Len(profile.s_nodes)
        above == {i \in 1..n : profile.s_nodes[i] > s}
        \* upper_bound: first node strictly beyond s (n + 1 for end()).
        i1 == IF above = {} THEN n + 1
              ELSE CHOOSE i \in above : \A j \in above : i <= j
        i0 == i1 - 1
        v == profile.curvature
    IN IF i1 = 1 THEN v[1]
       ELSE IF i1 > n THEN
         LET s0 == profile.s_nodes[n]
             s1 == profile.length_m + profile.s_nodes[1]
         IN v[n] + TruncDiv((v[1] - v[n]) * (s - s0), s1 - s0)
       ELSE
         LET s0 == profile.s_nodes[i0]
             s1 == profile.s_nodes[i1]
         IN IF s1 <= s0 THEN v[i0]
            ELSE v[i0] + TruncDiv((v[i1] - v[i0]) * (s - s0), s1 - s0)

(***************************************************************************)
(* State.                                                                  *)
(***************************************************************************)
VARIABLES
  handle,          \* what f1sim_create returned: "none" before the call, "null", "live"
  args,            \* the arguments of the f1sim_create call
  car_cfg_,        \* car_cfg_: the car configuration the core holds
  stray,           \* what a read past the end of car_cfg_'s gear-ratio table
                   \* yields in this instance (undefined behaviour: any value)
  out_snapshot,    \* the caller's snapshot struct
  rt_inputs,       \* Runtime::inputs of the embedded API
  dt_remainder_s,  \* Runtime::dt_remainder_s, in ticks
  tick,            \* the last step_sim call: its dt and the fixed steps it ran
  config_,         \* RaceSimulator::config_
  cars_,           \* RaceSimulator::cars_
  pit_events_,     \* RaceSimulator::pit_events_
  simulation_time_seconds_,
  since,           \* the steps car 0 has completed since the step of its last
                   \* line crossing, or since create, counted up to MaxSince
  max_cars,        \* sim_cfg_.max_cars
  capacity,        \* sim_cfg_.replay_capacity_steps
  track_,          \* the TrackProfile of the core
  car_count,       \* car_count_
  state,           \* state_: the twelve columns
  capture_replay,  \* capture_replay_
  replay_frames,   \* replay_frames_: each frame a sequence of DriverInput
  pc,              \* where control is: "ready" (no call in progress), "batch"
                   \* (in the loop of RunBatchLaps), "spin" (in the rollover
                   \* loop of Step, lines 160-165, on a track of length <= 0)
  spin_car,        \* the car index i of Step's loop while pc = "spin"
  batch,           \* the arguments and locals of the last RunBatchLaps call:
                   \* car_index, laps, done, total, best, and the lap times
                   \* it sampled (line 227), in order
  op,              \* the API call made last
  ret_det,         \* what f1sim_replay_captured_deterministic returned last
  ret_batch,       \* what f1sim_run_batch_laps returned last
  applied,         \* the local `in` of Step's last call, per car (line 106)
  session          \* the calls since start_capture: open while only step calls
                   \* followed it, clean when the columns held their defaults
                   \* at start_capture, steps the step calls counted up to
                   \* capacity + 1

vars ==
  << handle, args, car_cfg_, stray, out_snapshot, rt_inputs, dt_remainder_s, tick, config_, cars_, pit_events_,
                  simulation_time_seconds_,
                  since, max_cars, capacity, track_,
     car_count, state, capture_replay, replay_frames, pc, spin_car, batch, op,
     ret_det, ret_batch, applied, session >>

(***************************************************************************)
(* The physics of one step.                                                *)
(***************************************************************************)
\* SimulationCore::engine_torque_nm
engine_torque_nm(rpm) ==
  LET c == car_cfg_.torque_curve
      n == Len(c)
  IN IF n = 0 THEN 0
     ELSE IF rpm <= c[1].rpm THEN c[1].torque_nm
     ELSE IF rpm >= c[n].rpm THEN c[n].torque_nm
     ELSE
       LET i == CHOOSE k \in 2..n :
                  rpm <= c[k].rpm /\ \A j \in 2..(k - 1) : rpm > c[j].rpm
           r0 == c[i - 1].rpm
           r1 == c[i].rpm
       IN c[i - 1].torque_nm
            + TruncDiv((c[i].torque_nm - c[i - 1].torque_nm) * (rpm - r0), r1 - r0)

\* auto_shift shifting up whatever the number of gears.
auto_shiftUnbounded(g, rpm) ==
  IF car_cfg_.gear_count < 2 THEN g
  ELSE IF rpm > car_cfg_.shift_rpm_up THEN g + 1
  ELSE IF rpm < car_cfg_.shift_rpm_down /\ g > 1 THEN g - 1
  ELSE g

\* auto_shift shifting up whatever the engine speed.
auto_shiftEager(g, rpm) ==
  IF car_cfg_.gear_count < 2 THEN g
  ELSE IF g < car_cfg_.gear_count THEN g + 1
  ELSE IF rpm < car_cfg_.shift_rpm_down /\ g > 1 THEN g - 1
  ELSE g

\* SimulationCore::auto_shift: the gear after the call, from the gear and
\* the engine_rpm the previous step stored.
auto_shift(g, rpm) ==
  IF car_cfg_.gear_count < 2 THEN g
  ELSE IF rpm > car_cfg_.shift_rpm_up /\ g < car_cfg_.gear_count THEN g + 1
  ELSE IF rpm < car_cfg_.shift_rpm_down /\ g > 1 THEN g - 1
  ELSE g

\* One entry of every column after CarStateSoA::Resize.
DefaultCar ==
  [s_m |-> 0, x_m |-> 0, y_m |-> 0, yaw_rad |-> 0, speed_mps |-> 0,
   accel_long_mps2 |-> 0, accel_lat_mps2 |-> 0, engine_rpm |-> kMinRpm,
   lap_time_s |-> 0, last_lap_time_s |-> 0, gear |-> 1, lap |-> 0]

\* cos and sin of a heading held in eighths of a turn, in halves.
YawTurn == 8
CosTab == <<2, 1, 0, -1, -2, -1, 0, 1>>
Cos2(yaw) == CosTab[(yaw % YawTurn) + 1]
Sin2(yaw) == CosTab[((yaw - 2) % YawTurn) + 1]

\* The rollover loop with the condition s_m > length in place of s_m >= length.
RECURSIVE RolloverStrict(_, _)
RolloverStrict(c, length) ==
  IF c.s_m > length
    THEN RolloverStrict([c EXCEPT !.s_m = c.s_m - length,
                                  !.last_lap_time_s = c.lap_time_s,
                                  !.lap_time_s = 0,
                                  !.lap = (c.lap + 1) % LapModulus], length)
    ELSE c

\* The lap-rollover loop of Step (lines 160-165) for length > 0: the car
\* after the loop has exited.
RECURSIVE Rollover(_, _)
Rollover(c, length) ==
  IF c.s_m >= length
    THEN Rollover([c EXCEPT !.s_m = c.s_m - length,
                            !.last_lap_time_s = c.lap_time_s,
                            !.lap_time_s = 0,
                            !.lap = (c.lap + 1) % LapModulus], length)
    ELSE c

\* Line 117: the index gear_idx used to read the gear-ratio table, from the
\* gear g after auto_shift.
GearIdx(g) == Max2(1, Min2(g, car_cfg_.gear_count)) - 1

\* Line 118: gear_ratios[gear_idx].  The table is a std::array of kMaxGears
\* entries; a read past its end is undefined and yields stray.
GearRatio(gear_idx) ==
  IF gear_idx < kMaxGears THEN car_cfg_.gear_ratios[gear_idx + 1] ELSE stray

\* Lines 117-127: the engine speed stored at line 123 and the drive force
\* f_drive, from the speed v, the gear g after auto_shift and the throttle.
Powertrain(v, g, throttle) ==
  LET ratio == GearRatio(GearIdx(g)) * car_cfg_.final_drive
      radius == Max2(1, car_cfg_.tire_radius_m)
      engine_rpm == clampf(TruncDiv(v, radius) * ratio, kMinRpm, kMaxRpm)
  IN [engine_rpm |-> engine_rpm,
      f_drive |-> TruncDiv(TruncDiv(engine_torque_nm(engine_rpm) * throttle, InputScale)
                             * ratio * car_cfg_.driveline_efficiency,
                           radius)]

\* Lines 129-130: the normal load at speed v.
NormalLoad(v) ==
  car_cfg_.mass_kg * kGravity + TruncDiv(kAirDensity * car_cfg_.clA * v * v, 2)

\* Lines 132-138: a_long.
LongAccel(v, f_drive, normal, brake) ==
  TruncDiv(Min2(f_drive, car_cfg_.mu_long * normal)
             - TruncDiv(brake * car_cfg_.brake_force_max_n, InputScale)
             - car_cfg_.rolling_resistance
             - TruncDiv(kAirDensity * car_cfg_.cdA * v * v, 2),
           car_cfg_.mass_kg)

\* Lines 140-141: a_lat_unclamped.
LatUnclamped(v, curv_track, steer) ==
  TruncDiv(v * v * (curv_track
                      + TruncDiv(steer * car_cfg_.steer_gain,
                                 InputScale * Max2(1, car_cfg_.wheelbase_m))),
           CurvScale)

\* Lines 142-143: a_lat.
LatAccel(a_lat_unclamped, normal) ==
  clampf(a_lat_unclamped,
         -TruncDiv(car_cfg_.mu_lat * normal, car_cfg_.mass_kg),
         TruncDiv(car_cfg_.mu_lat * normal, car_cfg_.mass_kg))

\* Lines 146-149: a_scrub.
Scrub(a_lat_unclamped, a_lat) ==
  IF Abs(a_lat_unclamped) > 0
    THEN ScrubCoeff
           - Min2(ScrubCoeff, TruncDiv(ScrubCoeff * Abs(a_lat), Abs(a_lat_unclamped)))
    ELSE 0

\* Line 153: yaw_rate.
YawRate(a_lat, v_next) == IF v_next > 0 THEN TruncDiv(a_lat, v_next) ELSE 0

\* Lines 156-159 and the stores of lines 115, 123, 154 and 168-170: the car
\* on entry to the rollover loop.
Moved(c, g, engine_rpm, a_long, a_lat, v_next, yaw) ==
  [c EXCEPT !.gear = g,
            !.engine_rpm = engine_rpm,
            !.yaw_rad = yaw,
            !.x_m = FAcc(c.x_m, TruncDiv(Cos2(yaw) * v_next * FixedDt, 2)),
            !.y_m = FAcc(c.y_m, TruncDiv(Sin2(yaw) * v_next * FixedDt, 2)),
            !.s_m = c.s_m + v_next * FixedDt,
            !.speed_mps = v_next,
            !.accel_long_mps2 = a_long,
            !.accel_lat_mps2 = a_lat]

\* Lines 153-159, given the accelerations and v_next.
Kinematics(c, g, engine_rpm, a_long, a_lat, v_next) ==
  The({Moved(c, g, engine_rpm, a_long, a_lat, v_next, yaw) :
         yaw \in {FAcc(c.yaw_rad, YawRate(a_lat, v_next) * FixedDt)}})

\* Lines 146-159 with v_next not floored at zero.
LateralUnfloored(c, g, v, engine_rpm, a_long, a_lat_unclamped, a_lat) ==
  The({Kinematics(c, g, engine_rpm, a_long, a_lat, v_next) :
         v_next \in {v + (a_long - Scrub(a_lat_unclamped, a_lat)) * FixedDt}})

\* Lines 146-159, given the accelerations.
Lateral(c, g, v, engine_rpm, a_long, a_lat_unclamped, a_lat) ==
  The({Kinematics(c, g, engine_rpm, a_long, a_lat, v_next) :
         v_next \in {Max2(0, v + (a_long - Scrub(a_lat_unclamped, a_lat)) * FixedDt)}})

\* Lines 132-159, given the powertrain's values, the normal load and the
\* unclamped lateral demand.
Forces(c, g, v, brake, pt, normal, a_lat_unclamped) ==
  The({Lateral(c, g, v, pt.engine_rpm, a_long, a_lat_unclamped, a_lat) :
         a_long \in {LongAccel(v, pt.f_drive, normal, brake)},
         a_lat \in {LatAccel(a_lat_unclamped, normal)}})

\* Lines 113-159, given the clamped inputs, the speed and the gear.
Dynamics(profile, c, throttle, brake, steer, v, g) ==
  The({Forces(c, g, v, brake, pt, normal, a_lat_unclamped) :
         pt \in {Powertrain(v, g, throttle)},
         normal \in {NormalLoad(v)},
         a_lat_unclamped \in {LatUnclamped(v, curvature(profile, c.s_m), steer)}})

\* Lines 106-159 with the driver input taken as it is given.
IntegrateRaw(profile, c, in) ==
  The({Dynamics(profile, c, throttle, brake, steer, v, g) :
         throttle \in {in.throttle},
         brake \in {in.brake},
         steer \in {in.steer},
         v \in {Max2(0, c.speed_mps)},
         g \in {auto_shift(c.gear, c.engine_rpm)}})

\* The body of Step's per-car loop up to and including s_m += v_next * dt
\* (lines 106-159): the car on entry to the rollover loop, with the values
\* lines 168-170 store afterwards.
Integrate(profile, c, in) ==
  The({Dynamics(profile, c, throttle, brake, steer, v, g) :
         throttle \in {clampf(in.throttle, 0, InputScale)},
         brake \in {clampf(in.brake, 0, InputScale)},
         steer \in {clampf(in.steer, -InputScale, InputScale)},
         v \in {Max2(0, c.speed_mps)},
         g \in {auto_shift(c.gear, c.engine_rpm)}})

\* Line 167, after the rollover loop has exited.
Finish(r) == [r EXCEPT !.lap_time_s = FAcc(r.lap_time_s, FixedDt)]

\* One iteration of Step's per-car loop (lines 105-171) on a loaded track.
StepCar(profile, c, in) ==
  The({Finish(Rollover(m, profile.length_m)) : m \in {Integrate(profile, c, in)}})

(***************************************************************************)
(* Operations on the state.                                                *)
(***************************************************************************)
\* The car held at index i (0-based) of the columns.
CarAt(st, i) ==
  [s_m |-> st.s_m[i + 1], x_m |-> st.x_m[i + 1], y_m |-> st.y_m[i + 1],
   yaw_rad |-> st.yaw_rad[i + 1], speed_mps |-> st.speed_mps[i + 1],
   accel_long_mps2 |-> st.accel_long_mps2[i + 1],
   accel_lat_mps2 |-> st.accel_lat_mps2[i + 1],
   engine_rpm |-> st.engine_rpm[i + 1], lap_time_s |-> st.lap_time_s[i + 1],
   last_lap_time_s |-> st.last_lap_time_s[i + 1], gear |-> st.gear[i + 1],
   lap |-> st.lap[i + 1]]

\* The columns with the car at index i (0-based) replaced.
SetCar(st, i, car) ==
  [s_m |-> [st.s_m EXCEPT ![i + 1] = car.s_m],
   x_m |-> [st.x_m EXCEPT ![i + 1] = car.x_m],
   y_m |-> [st.y_m EXCEPT ![i + 1] = car.y_m],
   yaw_rad |-> [st.yaw_rad EXCEPT ![i + 1] = car.yaw_rad],
   speed_mps |-> [st.speed_mps EXCEPT ![i + 1] = car.speed_mps],
   accel_long_mps2 |-> [st.accel_long_mps2 EXCEPT ![i + 1] = car.accel_long_mps2],
   accel_lat_mps2 |-> [st.accel_lat_mps2 EXCEPT ![i + 1] = car.accel_lat_mps2],
   engine_rpm |-> [st.engine_rpm EXCEPT ![i + 1] = car.engine_rpm],
   lap_time_s |-> [st.lap_time_s EXCEPT ![i + 1] = car.lap_time_s],
   last_lap_time_s |-> [st.last_lap_time_s EXCEPT ![i + 1] = car.last_lap_time_s],
   gear |-> [st.gear EXCEPT ![i + 1] = car.gear],
   lap |-> [st.lap EXCEPT ![i + 1] = car.lap]]

\* The twelve columns, each holding count copies of the value v gives it.
Filled(count, v) ==
  [s_m |-> [k \in 1..count |-> v.s_m], x_m |-> [k \in 1..count |-> v.x_m],
   y_m |-> [k \in 1..count |-> v.y_m], yaw_rad |-> [k \in 1..count |-> v.yaw_rad],
   speed_mps |-> [k \in 1..count |-> v.speed_mps],
   accel_long_mps2 |-> [k \in 1..count |-> v.accel_long_mps2],
   accel_lat_mps2 |-> [k \in 1..count |-> v.accel_lat_mps2],
   engine_rpm |-> [k \in 1..count |-> v.engine_rpm],
   lap_time_s |-> [k \in 1..count |-> v.lap_time_s],
   last_lap_time_s |-> [k \in 1..count |-> v.last_lap_time_s],
   gear |-> [k \in 1..count |-> v.gear], lap |-> [k \in 1..count |-> v.lap]]

\* CarStateSoA::Resize
Resize(count) == Filled(count, DefaultCar)

\* Driver inputs a caller passes to step, and the input vectors built of them.
InputSet ==
  { ZeroInput,
    [throttle |-> 12, brake |-> 11, steer |-> 20],
    [throttle |-> 30, brake |-> -5, steer |-> -30] }
InputVectors ==
  {[k \in 1..n |-> d] : n \in 0..ConfigMaxCars, d \in InputSet}

\* The local `in` of Step for car i (0-based): inputs[i], or zero beyond input_count.
InputFor(inputs, i) == IF i < Len(inputs) THEN inputs[i + 1] ELSE ZeroInput

\* The capture block appending whether or not capture is on.
CaptureAlways(frames, inputs, count) ==
  IF Len(frames) < capacity
    THEN Append(frames, [k \in 1..count |-> InputFor(inputs, k - 1)])
    ELSE frames

\* The capture block appending to a buffer that is already full.
CaptureOverfull(frames, inputs, count) ==
  IF capture_replay /\ Len(frames) <= capacity
    THEN Append(frames, [k \in 1..count |-> InputFor(inputs, k - 1)])
    ELSE frames

\* The capture block recording the inputs as the caller passed them.
CaptureAsPassed(frames, inputs, count) ==
  IF capture_replay /\ Len(frames) < capacity
    THEN Append(frames, inputs)
    ELSE frames

\* Step, lines 96-103: the replay buffer after the capture block.
Capture(frames, inputs, count) ==
  IF capture_replay /\ Len(frames) < capacity
    THEN Append(frames, [k \in 1..count |-> InputFor(inputs, k - 1)])
    ELSE frames

\* Whether the rollover loop of a car never exits.
Diverges(c, length) == length <= 0 /\ c.s_m >= length

\* Lines 106-159 alone: the car when control enters a rollover loop that
\* never exits, m being the car Integrate yields; lines 167-170 are not
\* reached.
Entered(c, m) ==
  [c EXCEPT !.gear = m.gear, !.engine_rpm = m.engine_rpm, !.yaw_rad = m.yaw_rad,
            !.x_m = m.x_m, !.y_m = m.y_m, !.s_m = m.s_m]

\* Lines 160-170 for one car, m being the car on entry to the rollover
\* loop: the car, and whether control stays in the loop.
Settle(c, m) ==
  IF Diverges(m, track_.length_m)
    THEN [car |-> Entered(c, m), stuck |-> TRUE]
    ELSE [car |-> Finish(Rollover(m, track_.length_m)), stuck |-> FALSE]

\* One iteration of Step's per-car loop (lines 105-171) for car c.
CarStep(c, in) == The({Settle(c, m) : m \in {Integrate(track_, c, in)}})

\* The core value after the iteration for car i of Step's per-car loop, r
\* being the outcome of CarStep and in the input of line 106.
AfterCar(core, i, in, r) ==
  [core EXCEPT !.state = SetCar(core.state, i, r.car),
               !.applied = Append(core.applied, in),
               !.spin = IF r.stuck THEN i ELSE -1]

\* Step's per-car loop (lines 105-171) from car i on: the iterations stop
\* at the first car whose rollover loop never exits.
RECURSIVE CarLoop(_, _, _)
CarLoop(core, inputs, i) ==
  IF i >= car_count \/ core.spin >= 0 THEN core
  ELSE The({CarLoop(next, inputs, i + 1) :
              next \in {The({AfterCar(core, i, InputFor(inputs, i), r) :
                               r \in {The({CarStep(c, InputFor(inputs, i)) :
                                             c \in {CarAt(core.state, i)}})}})}})

\* SimulationCore::Step on a core value [state, frames, spin, applied]:
\* spin is -1 when the call returns, and else the car whose rollover loop
\* never exits (the cars before it are stepped, the cars after it are not);
\* applied holds the local `in` of each iteration the call began.
StepCore(core, inputs) ==
  IF core.spin >= 0 THEN core
  ELSE CarLoop([core EXCEPT !.frames = Capture(core.frames, inputs, car_count),
                            !.applied = <<>>],
               inputs, 0)

\* The core value of the current state.
Core == [state |-> state, frames |-> replay_frames, spin |-> -1, applied |-> <<>>]

\* SimulationCore::Reset on a core value.
ResetCore(core) == [core EXCEPT !.state = Resize(car_count), !.frames = <<>>]

\* The replay loop issuing the recorded frames last to first.
RECURSIVE ReplayLoopReversed(_, _)
ReplayLoopReversed(core, recorded) ==
  IF recorded = <<>> THEN core
  ELSE The({ReplayLoopReversed(next, SubSeq(recorded, 1, Len(recorded) - 1)) :
              next \in {StepCore(core, recorded[Len(recorded)])}})

\* The loop of ReplayCapturedDeterministic, lines 190-192.
RECURSIVE ReplayLoop(_, _)
ReplayLoop(core, recorded) ==
  IF recorded = <<>> THEN core
  ELSE The({ReplayLoop(next, Tail(recorded)) :
              next \in {StepCore(core, Head(recorded))}})

\* Lines 194-200: the comparison with the baseline.
Deterministic(st, baseline) ==
  \A i \in 0..(car_count - 1) :
    /\ Abs(st.speed_mps[i + 1] - baseline.speed_mps[i + 1]) < SpeedTol
    /\ Abs(st.s_m[i + 1] - baseline.s_m[i + 1]) < ArcTol
    /\ st.lap[i + 1] = baseline.lap[i + 1]

\* What is observed of the calls.  Each call starts from these values and
\* sets the ones it produces.
NoBatch ==
  [car_index |-> 0, laps |-> 0, done |-> 0, total |-> 0, best |-> 0, samples |-> <<>>]
ZeroResult == [mean_lap_time_s |-> 0, best_lap_time_s |-> 0, laps_completed |-> 0]

\* A value-initialised CarSnapshot: CarSnapshot{}.
ZeroSnapshot ==
  [s_m |-> 0, x_m |-> 0, y_m |-> 0, yaw_rad |-> 0, speed_mps |-> 0,
   accel_long_mps2 |-> 0, accel_lat_mps2 |-> 0, engine_rpm |-> 0,
   lap_time_s |-> 0, last_lap_time_s |-> 0, gear |-> 0, lap |-> 0]
NoSession == [open |-> FALSE, clean |-> FALSE, steps |-> 0]
NoTick == [dt |-> 0, steps |-> 0]
\* No RaceSimulator constructed.
NoRace == [track_length_m |-> 0, total_laps |-> 0, dt_seconds |-> 0]

IsDefault(st) == st = Resize(car_count)

Init ==
  /\ handle = "none"
  /\ args = [sim_null |-> FALSE, car_null |-> FALSE, track_null |-> FALSE,
             car |-> CarCfg, track |-> TrackLoop]
  /\ car_cfg_ = CarCfg
  /\ stray = 0
  /\ out_snapshot = ZeroSnapshot
  /\ rt_inputs = <<>>
  /\ dt_remainder_s = 0
  /\ tick = NoTick
  /\ config_ = NoRace
  /\ cars_ = <<>>
  /\ pit_events_ = <<>>
  /\ simulation_time_seconds_ = 0
  /\ since = 0
  /\ max_cars = 0
  /\ capacity = 0
  /\ track_ = EmptyProfile
  /\ car_count = 0
  /\ state = Resize(0)
  /\ capture_replay = FALSE
  /\ replay_frames = <<>>
  /\ pc = "ready"
  /\ spin_car = 0
  /\ batch = NoBatch
  /\ op = "none"
  /\ ret_det = FALSE
  /\ ret_batch = ZeroResult
  /\ applied = <<>>
  /\ session = NoSession

Ready == handle = "live" /\ pc = "ready"

\* to_cpp of c_api.cpp on a car configuration: every field is copied, the
\* gear-ratio table entry by entry and gear_count as it is.
to_cpp(c) ==
  [c EXCEPT !.gear_ratios = [i \in 1..kMaxGears |-> c.gear_ratios[i]],
            !.gear_count = c.gear_count]

\* The values a read past the end of the gear-ratio table may yield in an
\* instance holding the configuration c; an instance whose gears stay
\* within the table makes no such read.
StrayValues == {0, 2}
StrayReads(c) == IF c.gear_count > kMaxGears THEN StrayValues ELSE {0}

\* Whether create hands back a handle for these arguments (c_api.cpp 154-165).
CreateReturnsHandle(a) == ~(a.sim_null \/ a.car_null \/ a.track_null)

\* f1sim_create with the SimulationCore constructor and the SetCarCount
\* calls of both.
Create(a, mc, cap) ==
  /\ handle = "none"
  /\ args' = a
  /\ op' = "create"
  /\ IF CreateReturnsHandle(a)
       THEN /\ handle' = "live"
            /\ max_cars' = mc
            /\ capacity' = cap
            /\ car_cfg_' = to_cpp(a.car)
            /\ stray' \in StrayReads(to_cpp(a.car))
            /\ track_' = Load(EmptyProfile, a.track)
            /\ car_count' = Min2(Min2(mc, 1), mc)
            /\ state' = Resize(Min2(Min2(mc, 1), mc))
       ELSE /\ handle' = "null"
            /\ UNCHANGED << max_cars, capacity, car_cfg_, stray, track_, car_count,
                            state >>
  /\ UNCHANGED << out_snapshot, rt_inputs, dt_remainder_s, tick, config_, cars_, pit_events_,
                  simulation_time_seconds_,
                  since, capture_replay, replay_frames, pc, spin_car,
                  batch, ret_det, ret_batch, applied, session >>

\* SetCarCount taking the count as it is given.
SetCarCountUnclamped(count) ==
  /\ Ready
  /\ op' = "set_car_count"
  /\ car_count' = count
  /\ state' = Resize(count)
  /\ batch' = NoBatch /\ ret_det' = FALSE /\ ret_batch' = ZeroResult
  /\ applied' = <<>> /\ session' = NoSession
  /\ UNCHANGED << handle, args, car_cfg_, stray, out_snapshot, rt_inputs, dt_remainder_s, tick, config_, cars_, pit_events_,
                  simulation_time_seconds_,
                  since, max_cars,
                  capacity, track_, capture_replay,
                  replay_frames, pc, spin_car >>

\* f1sim_set_car_count / SimulationCore::SetCarCount
SetCarCount(count) ==
  /\ Ready
  /\ op' = "set_car_count"
  /\ car_count' = Min2(count, max_cars)
  /\ state' = Resize(Min2(count, max_cars))
  /\ batch' = NoBatch /\ ret_det' = FALSE /\ ret_batch' = ZeroResult
  /\ applied' = <<>> /\ session' = NoSession
  /\ UNCHANGED << handle, args, car_cfg_, stray, out_snapshot, rt_inputs, dt_remainder_s, tick, config_, cars_, pit_events_,
                  simulation_time_seconds_,
                  since, max_cars,
                  capacity, track_, capture_replay,
                  replay_frames, pc, spin_car >>

\* Reset leaving the replay buffer as it is.
ResetKeepsFrames ==
  /\ Ready
  /\ op' = "reset"
  /\ state' = Resize(car_count)
  /\ batch' = NoBatch /\ ret_det' = FALSE /\ ret_batch' = ZeroResult
  /\ applied' = <<>> /\ session' = NoSession
  /\ UNCHANGED << handle, args, car_cfg_, stray, out_snapshot, rt_inputs, dt_remainder_s, tick, config_, cars_, pit_events_,
                  simulation_time_seconds_,
                  since, max_cars,
                  capacity, track_, car_count,
                  capture_replay, replay_frames, pc, spin_car >>

\* f1sim_reset / SimulationCore::Reset
Reset ==
  /\ Ready
  /\ op' = "reset"
  /\ state' = Resize(car_count)
  /\ replay_frames' = <<>>
  /\ batch' = NoBatch /\ ret_det' = FALSE /\ ret_batch' = ZeroResult
  /\ applied' = <<>> /\ session' = NoSession
  /\ UNCHANGED << handle, args, car_cfg_, stray, out_snapshot, rt_inputs, dt_remainder_s, tick, config_, cars_, pit_events_,
                  simulation_time_seconds_,
                  since, max_cars,
                  capacity, track_, car_count,
                  capture_replay, pc, spin_car >>

\* The exploration stops stepping a core whose lap counter or lap clock has
\* reached the bound.
WithinBounds(st) ==
  \A k \in 1..car_count : st.lap[k] < MaxLap /\ st.lap_time_s[k] < MaxLapTime

\* The core value r a call leaves behind, written to the object; control
\* stays in the rollover loop when r.spin names a car.
Leaves(r) ==
  /\ state' = r.state
  /\ replay_frames' = r.frames
  /\ pc' = IF r.spin >= 0 THEN "spin" ELSE "ready"
  /\ spin_car' = IF r.spin >= 0 THEN r.spin ELSE 0

\* f1sim_step / SimulationCore::Step
Step(inputs) ==
  /\ Ready
  /\ WithinBounds(state)
  /\ op' = "step"
  /\ \E r \in {StepCore(Core, inputs)} : Leaves(r)
  /\ session' = IF session.open
                  THEN [session EXCEPT !.steps = Min2(session.steps + 1, capacity + 1)]
                  ELSE session
  /\ batch' = NoBatch /\ ret_det' = FALSE /\ ret_batch' = ZeroResult
  /\ applied' = <<>>
  /\ UNCHANGED << handle, args, car_cfg_, stray, out_snapshot, rt_inputs, dt_remainder_s, tick, config_, cars_, pit_events_,
                  simulation_time_seconds_,
                  since, max_cars,
                  capacity, track_, car_count,
                  capture_replay >>

\* One more iteration of a rollover loop that never exits (lines 161-164).
Spin ==
  /\ pc = "spin"
  /\ state.s_m[spin_car + 1] >= track_.length_m
  /\ state' = [state EXCEPT
                 !.s_m[spin_car + 1] = state.s_m[spin_car + 1] - track_.length_m,
                 !.last_lap_time_s[spin_car + 1] = state.lap_time_s[spin_car + 1],
                 !.lap_time_s[spin_car + 1] = 0,
                 !.lap[spin_car + 1] = (state.lap[spin_car + 1] + 1) % LapModulus]
  /\ UNCHANGED << handle, args, car_cfg_, stray, out_snapshot, rt_inputs, dt_remainder_s, tick, config_, cars_, pit_events_,
                  simulation_time_seconds_,
                  since, max_cars,
                  capacity, track_, car_count,
                  capture_replay, replay_frames, pc, spin_car, batch, op, ret_det,
                  ret_batch, applied, session >>

\* f1sim_start_replay_capture / SimulationCore::StartReplayCapture
StartReplayCapture ==
  /\ Ready
  /\ op' = "start_capture"
  /\ capture_replay' = TRUE
  /\ replay_frames' = <<>>
  /\ session' = [open |-> TRUE, clean |-> IsDefault(state), steps |-> 0]
  /\ batch' = NoBatch /\ ret_det' = FALSE /\ ret_batch' = ZeroResult
  /\ applied' = <<>>
  /\ UNCHANGED << handle, args, car_cfg_, stray, out_snapshot, rt_inputs, dt_remainder_s, tick, config_, cars_, pit_events_,
                  simulation_time_seconds_,
                  since, max_cars,
                  capacity, track_, car_count, state,
                  pc, spin_car >>

\* f1sim_stop_replay_capture / SimulationCore::StopReplayCapture
StopReplayCapture ==
  /\ Ready
  /\ op' = "stop_capture"
  /\ capture_replay' = FALSE
  /\ batch' = NoBatch /\ ret_det' = FALSE /\ ret_batch' = ZeroResult
  /\ applied' = <<>> /\ session' = NoSession
  /\ UNCHANGED << handle, args, car_cfg_, stray, out_snapshot, rt_inputs, dt_remainder_s, tick, config_, cars_, pit_events_,
                  simulation_time_seconds_,
                  since, max_cars,
                  capacity, track_, car_count, state,
                  replay_frames, pc, spin_car >>

\* Lines 194-202: the core value r the replay loop leaves, with the value
\* the call returns.
Verdict(r, baseline) ==
  [core |-> r, value |-> r.spin < 0 /\ Deterministic(r.state, baseline)]

\* The call with Reset made before the test for an empty buffer.
ReplayResultResetFirst ==
  IF replay_frames = <<>>
    THEN [core |-> ResetCore(Core), value |-> FALSE]
    ELSE The({Verdict(r, state) : r \in {ReplayLoop(ResetCore(Core), replay_frames)}})

\* SimulationCore::ReplayCapturedDeterministic on the current state: the
\* core value after the call and the value returned.
ReplayResult ==
  IF replay_frames = <<>>
    THEN [core |-> Core, value |-> FALSE]
    ELSE The({Verdict(r, state) : r \in {ReplayLoop(ResetCore(Core), replay_frames)}})

\* The return of the call: the core value written to the object and the
\* value handed to the caller.
Returns(r) == Leaves(r.core) /\ ret_det' = r.value

\* f1sim_replay_captured_deterministic
ReplayCapturedDeterministic ==
  /\ Ready
  /\ op' = "captured_deterministic"
  /\ \E r \in {ReplayResult} : Returns(r)
  /\ batch' = NoBatch /\ ret_batch' = ZeroResult
  /\ applied' = <<>> /\ session' = NoSession
  /\ UNCHANGED << handle, args, car_cfg_, stray, out_snapshot, rt_inputs, dt_remainder_s, tick, config_, cars_, pit_events_,
                  simulation_time_seconds_,
                  since, max_cars,
                  capacity, track_, car_count,
                  capture_replay >>

\* The driver input RunBatchLaps synthesises (lines 219-222).
BatchInput(st, car_index) ==
  LET k == curvature(track_, st.s_m[car_index + 1])
      curv == Abs(k)
  IN [throttle |-> IF curv < CurvLow THEN InputScale ELSE BatchThrottlePart,
      brake |-> IF curv > CurvHigh /\ st.speed_mps[car_index + 1] > BatchBrakeSpeed
                  THEN BatchBrake ELSE 0,
      steer |-> clampf(TruncDiv(k * BatchSteerGain * InputScale, CurvScale),
                       -InputScale, InputScale)]

\* The input vector RunBatchLaps hands to Step, with input_count its
\* length (line 224).
BatchInputs(in, car_index) == << in >>

\* Lines 234-237: the result of RunBatchLaps from its locals.
BatchOut(b) ==
  [laps_completed |-> b.done,
   mean_lap_time_s |-> IF b.done > 0 THEN TruncDiv(b.total, b.done) ELSE 0,
   best_lap_time_s |-> IF b.done > 0 THEN b.best ELSE 0]

\* The call with Reset made before the test of the arguments.
RunBatchLapsResetFirst(car_index, laps) ==
  /\ Ready
  /\ op' = "run_batch_laps"
  /\ state' = Resize(car_count)
  /\ replay_frames' = <<>>
  /\ IF car_index >= car_count \/ laps = 0
       THEN /\ batch' = NoBatch
            /\ UNCHANGED pc
       ELSE /\ batch' = [car_index |-> car_index, laps |-> laps, done |-> 0,
                         total |-> 0, best |-> FloatMax, samples |-> <<>>]
            /\ pc' = "batch"
  /\ ret_det' = FALSE /\ ret_batch' = ZeroResult
  /\ applied' = <<>> /\ session' = NoSession
  /\ UNCHANGED << handle, args, car_cfg_, stray, out_snapshot, rt_inputs, dt_remainder_s, tick, config_, cars_, pit_events_,
                  simulation_time_seconds_,
                  since, max_cars,
                  capacity, track_, car_count,
                  capture_replay, spin_car >>

\* f1sim_run_batch_laps / SimulationCore::RunBatchLaps up to the loop
\* (lines 205-217): an invalid call returns; a valid one resets and enters
\* the loop.
RunBatchLaps(car_index, laps) ==
  /\ Ready
  /\ op' = "run_batch_laps"
  /\ IF car_index >= car_count \/ laps = 0
       THEN /\ batch' = NoBatch
            /\ UNCHANGED << state, replay_frames, pc >>
       ELSE /\ batch' = [car_index |-> car_index, laps |-> laps, done |-> 0,
                         total |-> 0, best |-> FloatMax, samples |-> <<>>]
            /\ state' = Resize(car_count)
            /\ replay_frames' = <<>>
            /\ pc' = "batch"
  /\ ret_det' = FALSE /\ ret_batch' = ZeroResult
  /\ applied' = <<>> /\ session' = NoSession
  /\ UNCHANGED << handle, args, car_cfg_, stray, out_snapshot, rt_inputs, dt_remainder_s, tick, config_, cars_, pit_events_,
                  simulation_time_seconds_,
                  since, max_cars,
                  capacity, track_, car_count,
                  capture_replay, spin_car >>

\* The sample with best taking the last lap time in place of the minimum.
SampleLast(b, st) ==
  IF st.lap[b.car_index + 1] > b.done
    THEN LET lap_time == st.last_lap_time_s[b.car_index + 1]
         IN [b EXCEPT !.total = b.total + lap_time,
                      !.best = lap_time,
                      !.done = b.done + 1,
                      !.samples = Append(b.samples, lap_time)]
    ELSE b

\* The locals of RunBatchLaps after lines 226-231, given the columns after Step.
Sample(b, st) ==
  IF st.lap[b.car_index + 1] > b.done
    THEN LET lap_time == st.last_lap_time_s[b.car_index + 1]
         IN [b EXCEPT !.total = b.total + lap_time,
                      !.best = Min2(b.best, lap_time),
                      !.done = b.done + 1,
                      !.samples = Append(b.samples, lap_time)]
    ELSE b

\* Lines 226-237: the locals b after the sample; the loop goes on, or the
\* call returns.
Sampled(b) ==
  /\ batch' = b
  /\ IF b.done < b.laps
       THEN pc' = "batch" /\ UNCHANGED ret_batch
       ELSE pc' = "ready" /\ ret_batch' = BatchOut(b)

\* Lines 224-232, r being the core value the Step call of line 224 leaves.
Stepped(r) ==
  /\ state' = r.state
  /\ replay_frames' = r.frames
  /\ applied' = r.applied
  /\ IF r.spin >= 0
       THEN /\ pc' = "spin"
            /\ spin_car' = r.spin
            /\ UNCHANGED << batch, ret_batch >>
       ELSE /\ spin_car' = 0
            /\ \E b \in {Sample(batch, r.state)} : Sampled(b)

\* One iteration of the loop of RunBatchLaps (lines 218-232), and the
\* return (lines 234-237) when the loop condition then fails.
BatchIter ==
  /\ pc = "batch"
  /\ batch.done < batch.laps
  /\ \E r \in {StepCore(Core, BatchInputs(BatchInput(state, batch.car_index),
                                           batch.car_index))} : Stepped(r)
  /\ UNCHANGED << handle, args, car_cfg_, stray, out_snapshot, rt_inputs, dt_remainder_s, tick, config_, cars_, pit_events_,
                  simulation_time_seconds_,
                  since, max_cars,
                  capacity, track_, car_count,
                  capture_replay, op, ret_det, session >>

\* SimulationCore::Snapshot with a non-null out: the struct after the call,
\* out being the struct before it.
SnapshotOut(car_index, out) ==
  IF car_index >= car_count THEN out ELSE CarAt(state, car_index)

\* SimulationCore::Snapshot called on the caller's struct, which holds
\* prior.
Snapshot(car_index, prior) ==
  /\ Ready
  /\ op' = "snapshot"
  /\ out_snapshot' = SnapshotOut(car_index, prior)
  /\ batch' = NoBatch /\ ret_det' = FALSE /\ ret_batch' = ZeroResult
  /\ applied' = <<>> /\ session' = NoSession
  /\ UNCHANGED << handle, args, car_cfg_, stray, rt_inputs, dt_remainder_s, tick, config_, cars_, pit_events_,
                  simulation_time_seconds_, since,
                  max_cars, capacity, track_,
                  car_count, state, capture_replay, replay_frames, pc, spin_car >>

\* f1sim_snapshot with a live handle and a non-null out_snapshot holding
\* prior: Snapshot fills a value-initialised tmp, and every field of tmp is
\* copied to the caller's struct.
f1sim_snapshot(car_index, prior) ==
  /\ Ready
  /\ op' = "f1sim_snapshot"
  /\ \E tmp \in {SnapshotOut(car_index, ZeroSnapshot)} : out_snapshot' = tmp
  /\ batch' = NoBatch /\ ret_det' = FALSE /\ ret_batch' = ZeroResult
  /\ applied' = <<>> /\ session' = NoSession
  /\ UNCHANGED << handle, args, car_cfg_, stray, rt_inputs, dt_remainder_s, tick, config_, cars_, pit_events_,
                  simulation_time_seconds_, since,
                  max_cars, capacity, track_,
                  car_count, state, capture_replay, replay_frames, pc, spin_car >>

\* What the caller's struct may hold before a snapshot call: what the last
\* call left in it, zeroes, or values the caller wrote.
CallerSnapshot ==
  [s_m |-> 1, x_m |-> 1, y_m |-> 1, yaw_rad |-> 1, speed_mps |-> 1,
   accel_long_mps2 |-> 1, accel_lat_mps2 |-> 1, engine_rpm |-> 1,
   lap_time_s |-> 1, last_lap_time_s |-> 1, gear |-> 1, lap |-> 1]
PriorSnapshots == {out_snapshot, ZeroSnapshot, CallerSnapshot}

\* The arguments of a create call: which config pointers are null, and the
\* track configuration behind the track pointer.
CreateArgs ==
  { [sim_null |-> sn, car_null |-> cn, track_null |-> tn, car |-> CarCfg,
     track |-> t] :
      sn \in BOOLEAN, cn \in BOOLEAN, tn \in BOOLEAN, t \in TrackConfigs }

Next ==
  \/ \E a \in CreateArgs, cap \in 0..MaxCapacity : Create(a, ConfigMaxCars, cap)
  \/ \E count \in 0..(ConfigMaxCars + 1) : SetCarCount(count)
  \/ Reset
  \/ \E inputs \in InputVectors : Step(inputs)
  \/ Spin
  \/ StartReplayCapture
  \/ StopReplayCapture
  \/ ReplayCapturedDeterministic
  \/ \E car_index \in 0..ConfigMaxCars, laps \in 0..MaxBatchLaps : RunBatchLaps(car_index, laps)
  \/ BatchIter

Spec == Init /\ [][Next]_vars

\* The calls that run loops, without the replay calls.  The loops of the
\* code keep running: an iteration that can be taken is taken.
LoopNext ==
  \/ \E a \in CreateArgs, cap \in 0..MaxCapacity : Create(a, ConfigMaxCars, cap)
  \/ \E count \in 0..(ConfigMaxCars + 1) : SetCarCount(count)
  \/ \E inputs \in InputVectors : Step(inputs)
  \/ Spin
  \/ \E car_index \in 0..ConfigMaxCars, laps \in 0..MaxBatchLaps : RunBatchLaps(car_index, laps)
  \/ BatchIter

LoopSpec == Init /\ [][LoopNext]_vars /\ WF_vars(BatchIter) /\ WF_vars(Spin)

\* Car configurations that differ in the number of gears the caller states,
\* from none to one more than the table holds, and in the shift points: the
\* ones of CarCfg, or shift points below kMinRpm, with which a car shifts
\* up in every step.
ShiftPoints == { [up |-> 11, down |-> 6], [up |-> 3, down |-> 2] }
GearCarConfigs ==
  { [CarCfg EXCEPT !.gear_count = n, !.shift_rpm_up = sh.up,
                   !.shift_rpm_down = sh.down] :
      n \in 0..(kMaxGears + 1), sh \in ShiftPoints }
GearCreateArgs ==
  { [sim_null |-> FALSE, car_null |-> FALSE, track_null |-> FALSE, car |-> c,
     track |-> TrackLoop] : c \in GearCarConfigs }

\* The init structs passed to init_sim: the same, and one with a track of
\* one node.
InitArgs ==
  GearCreateArgs
    \cup { [sim_null |-> FALSE, car_null |-> FALSE, track_null |-> FALSE,
             car |-> CarCfg, track |-> TrackOneNode] }

\* init_sim of wasm_api.cpp, lines 70-92: the car configuration built from
\* the init struct, gear_count capped at the size of the table.
init_car(c) ==
  [c EXCEPT !.gear_ratios = [i \in 1..kMaxGears |-> c.gear_ratios[i]],
            !.gear_count = Min2(c.gear_count, kMaxGears)]

\* Whether init_sim goes on to build the core (wasm_api.cpp 47-50); the
\* record a holds the init struct: its car and track fields, with
\* sim_null for a null cfg, track_null for null track_nodes and car_null
\* for a null torque_curve.
InitBuilds(a) ==
  ~(a.sim_null \/ a.track_null \/ a.car_null
      \/ a.track.node_count < 2 \/ Len(a.car.torque_curve) < 2)

\* init_sim of the embedded API: the core is constructed, SetCarCount is
\* called with min(active_cars, max_cars), and capture is started.
init_sim(a, active_cars, mc, cap) ==
  /\ handle = "none"
  /\ args' = a
  /\ op' = "init_sim"
  /\ IF InitBuilds(a)
       THEN /\ handle' = "live"
            /\ max_cars' = mc
            /\ capacity' = cap
            /\ car_cfg_' = init_car(a.car)
            /\ stray' \in StrayReads(init_car(a.car))
            /\ track_' = Load(EmptyProfile, a.track)
            /\ car_count' = Min2(Min2(active_cars, mc), mc)
            /\ state' = Resize(Min2(Min2(active_cars, mc), mc))
            /\ capture_replay' = TRUE
            /\ rt_inputs' = [k \in 1..Min2(Min2(active_cars, mc), mc) |-> ZeroInput]
       ELSE /\ handle' = "null"
            /\ UNCHANGED << max_cars, capacity, car_cfg_, stray, track_, car_count,
                            state, capture_replay, rt_inputs >>
  /\ dt_remainder_s' = 0
  /\ UNCHANGED << out_snapshot, tick, config_, cars_, pit_events_,
                  simulation_time_seconds_, since, replay_frames, pc, spin_car, batch, ret_det,
                  ret_batch, applied, session >>

(***************************************************************************)
(* The embedded API: the variable-dt accumulator and the AI inputs.        *)
(***************************************************************************)
\* dt_remainder_s and the dt of step_sim are held in ticks, TicksPerStep of
\* them to one fixed_dt.
TicksPerStep == 2
FixedTicks == TicksPerStep * FixedDt
\* int max_steps = 8192, scaled.
kMaxSteps == 2
\* The speed above which an AI car brakes: 83, scaled.
AiBrakeSpeed == 2
\* The exploration stops calling step_sim with a remainder this large.
MaxRemainder == 12

\* update_ai_inputs, lines 34-40, for car i >= 1 with entry in: the phase
\* i * 0.35 + s_m * 0.003 is held in eighths of a turn, 0.70, 0.22, 0.2 and
\* 0.16 are 14, 4, 4 and 3 in InputScale.
AiPhase(i, s_m) == i + s_m
AiInput(in, i, s_m, speed_mps) ==
  [in EXCEPT
     !.throttle = clampf(14 + TruncDiv(4 * Sin2(AiPhase(i, s_m)), 2), 0, InputScale),
     !.brake = IF speed_mps > AiBrakeSpeed THEN 4 ELSE 0,
     !.steer = TruncDiv(3 * Sin2(TruncDiv(AiPhase(i, s_m) * 4, 5)), 2)]

\* update_ai_inputs: the inputs resized to the car count, entry 0 kept,
\* the entries of the cars i >= 1 set from the columns st.
update_ai_inputs(ins, st) ==
  [k \in 1..car_count |->
     IF k = 1 THEN InputFor(ins, 0)
     ELSE AiInput(InputFor(ins, k - 1), k - 1, st.s_m[k], st.speed_mps[k])]

\* The while loop of step_sim (lines 133-136) on the value
\* [core, rem, steps]: the core, the remainder, the fixed steps run so far;
\* max_steps is what is left of the ceiling.
RECURSIVE FixedSteps(_, _, _)
FixedSteps(run, ins, max_steps) ==
  IF run.rem >= FixedTicks /\ max_steps > 0 /\ run.core.spin < 0
    THEN The({FixedSteps(next, ins, max_steps - 1) :
               next \in {[core |-> StepCore(run.core, ins),
                          rem |-> run.rem - FixedTicks,
                          steps |-> run.steps + 1]}})
    ELSE run

\* step_sim with dt added to the remainder as it is.
step_simSigned(dt) ==
  /\ Ready
  /\ WithinBounds(state)
  /\ dt_remainder_s + Max2(0, dt) <= MaxRemainder
  /\ op' = "step_sim"
  /\ \E ins \in {update_ai_inputs(rt_inputs, state)} :
       \E run \in {FixedSteps([core |-> Core,
                                rem |-> dt_remainder_s + dt,
                                steps |-> 0], ins, kMaxSteps)} :
         /\ rt_inputs' = ins
         /\ Leaves(run.core)
         /\ dt_remainder_s' = run.rem
         /\ tick' = [dt |-> dt, steps |-> run.steps]
         /\ session' = IF session.open
                         THEN [session EXCEPT
                                 !.steps = Min2(session.steps + run.steps, capacity + 1)]
                         ELSE session
  /\ batch' = NoBatch /\ ret_det' = FALSE /\ ret_batch' = ZeroResult
  /\ applied' = <<>>
  /\ UNCHANGED << handle, args, car_cfg_, stray, out_snapshot, config_, cars_,
                  pit_events_, simulation_time_seconds_, since, max_cars,
                  capacity, track_, car_count, capture_replay >>

\* step_sim, lines 124-138.
step_sim(dt) ==
  /\ Ready
  /\ WithinBounds(state)
  /\ dt_remainder_s + Max2(0, dt) <= MaxRemainder
  /\ op' = "step_sim"
  /\ \E ins \in {update_ai_inputs(rt_inputs, state)} :
       \E run \in {FixedSteps([core |-> Core,
                                rem |-> dt_remainder_s + Max2(0, dt),
                                steps |-> 0], ins, kMaxSteps)} :
         /\ rt_inputs' = ins
         /\ Leaves(run.core)
         /\ dt_remainder_s' = run.rem
         /\ tick' = [dt |-> dt, steps |-> run.steps]
         /\ session' = IF session.open
                         THEN [session EXCEPT
                                 !.steps = Min2(session.steps + run.steps, capacity + 1)]
                         ELSE session
  /\ batch' = NoBatch /\ ret_det' = FALSE /\ ret_batch' = ZeroResult
  /\ applied' = <<>>
  /\ UNCHANGED << handle, args, car_cfg_, stray, out_snapshot, config_, cars_,
                  pit_events_, simulation_time_seconds_, since, max_cars,
                  capacity, track_, car_count, capture_replay >>

\* set_controls, lines 115-122.
set_controls(throttle, brake, steering) ==
  /\ Ready
  /\ op' = "set_controls"
  /\ rt_inputs' = IF rt_inputs = <<>> THEN rt_inputs
               ELSE [rt_inputs EXCEPT ![1] = [throttle |-> clampf(throttle, 0, InputScale),
                                           brake |-> clampf(brake, 0, InputScale),
                                           steer |-> clampf(steering, -InputScale,
                                                            InputScale)]]
  /\ UNCHANGED << handle, args, car_cfg_, stray, out_snapshot, dt_remainder_s, tick, config_, cars_, pit_events_,
                  simulation_time_seconds_,
                  since, max_cars, capacity, track_, car_count, state,
                  capture_replay, replay_frames, pc, spin_car, batch, ret_det,
                  ret_batch, applied, session >>

\* reset_sim, lines 107-113.
reset_sim ==
  /\ Ready
  /\ op' = "reset_sim"
  /\ state' = Resize(car_count)
  /\ replay_frames' = <<>>
  /\ dt_remainder_s' = 0
  /\ batch' = NoBatch /\ ret_det' = FALSE /\ ret_batch' = ZeroResult
  /\ applied' = <<>> /\ session' = NoSession
  /\ UNCHANGED << handle, args, car_cfg_, stray, out_snapshot, rt_inputs, tick, config_, cars_, pit_events_,
                  simulation_time_seconds_, since,
                  max_cars, capacity, track_, car_count, capture_replay, pc,
                  spin_car >>

\* The dt of the step_sim calls, in ticks.
StepDts == {-3, 0, 1, 2, 7}

\* The init structs of the embedded instances: the default car on the loop,
\* and one with a track of one node.
EmbeddedInitArgs ==
  { [sim_null |-> FALSE, car_null |-> FALSE, track_null |-> FALSE,
     car |-> CarCfg, track |-> tr] : tr \in {TrackLoop, TrackOneNode} }

\* The embedded API: init_sim, reset_sim, set_controls, step_sim.
EmbeddedNext ==
  \/ \E a \in EmbeddedInitArgs, active_cars \in 1..ConfigMaxCars :
       init_sim(a, active_cars, ConfigMaxCars, 0)
  \/ reset_sim
  \/ \E in \in InputSet : set_controls(in.throttle, in.brake, in.steer)
  \/ \E dt \in StepDts : step_sim(dt)

EmbeddedSpec == Init /\ [][EmbeddedNext]_vars

\* Instances of either API over the car configurations GearCarConfigs, on
\* a loaded track, and the calls that write the gear column.
GearNext ==
  \/ \E a \in GearCreateArgs : Create(a, ConfigMaxCars, 0)
  \/ \E a \in InitArgs, active_cars \in 1..ConfigMaxCars :
       init_sim(a, active_cars, ConfigMaxCars, 0)
  \/ \E count \in 0..(ConfigMaxCars + 1) : SetCarCount(count)
  \/ Reset
  \/ \E inputs \in InputVectors : Step(inputs)

GearSpec == Init /\ [][GearNext]_vars

\* Instances on a loaded track, the short loop among them, and the
\* run_batch_laps calls on them.
BatchCreateArgs ==
  { [sim_null |-> FALSE, car_null |-> FALSE, track_null |-> FALSE,
     car |-> CarCfg, track |-> tr] : tr \in {TrackLoop, TrackShort} }

BatchNext ==
  \/ \E a \in BatchCreateArgs, cap \in 0..MaxCapacity : Create(a, ConfigMaxCars, cap)
  \/ \E count \in 0..(ConfigMaxCars + 1) : SetCarCount(count)
  \/ StartReplayCapture
  \/ \E car_index \in 0..ConfigMaxCars, laps \in 0..MaxBatchLaps :
       RunBatchLaps(car_index, laps)
  \/ BatchIter

BatchSpec == Init /\ [][BatchNext]_vars

(***************************************************************************)
(* The strategic RaceSimulator (simulator.cpp).  Times are held in ticks,  *)
(* distances in metres scaled, the tyre in quarters.                       *)
(***************************************************************************)
\* The variables of the C API and of the embedded API.
ApiVars ==
  << handle, args, car_cfg_, stray, out_snapshot, rt_inputs, dt_remainder_s, tick,
     since, max_cars, capacity, track_, car_count, state, capture_replay,
     replay_frames, pc, spin_car, batch, op, ret_det, ret_batch, applied, session >>

\* A double holds a + d as a when d is less than half an ulp of a: the ratio
\* of 2^53, scaled.
DoubleAbsorb == 6
DAdd(a, d) == IF Abs(d) * DoubleAbsorb < Abs(a) THEN a ELSE a + d

\* The tyre of a fresh set (1.0), the floor of the wear (0.12), and the
\* level below which the tyre trigger fires (0.20 + 0.08 * (1 - aggression)).
TyreFresh == 4
TyreFloor == 1
TyreTrigger == 2
\* The stops the tyre trigger may start: pit_stops < 3.
TriggerStops == 3
\* The speeds max(20.0, ...) of line 149 yields, the noise of random_unit
\* making the choice.
RaceSpeeds == {1, 2}
\* The stationary times of start_pit_stop, 2.2 s to 4.3 s by random_unit and
\* consistency.
StationaryTimes == {4, 8}

\* The constructor, lines 60-75: the car of driver profile d.
RaceCar(d) ==
  [distance_total_m |-> 0, lap |-> 1, finished |-> FALSE, speed_mps |-> 2,
   tyre |-> TyreFresh, pit_stops |-> 0, in_pit |-> FALSE,
   pit_time_remaining_s |-> 0, last_pit_lap |-> -1,
   planned_pit_laps |-> d.planned_pit_laps]

\* should_pit, lines 86-98.
should_pit(car) ==
  IF car.in_pit \/ car.finished THEN FALSE
  ELSE IF car.lap >= config_.total_laps - 1 THEN FALSE
  ELSE IF car.last_pit_lap = car.lap THEN FALSE
  ELSE IF \E k \in 1..Len(car.planned_pit_laps) : car.lap = car.planned_pit_laps[k]
    THEN TRUE
  ELSE car.tyre < TyreTrigger /\ car.pit_stops < TriggerStops

\* start_pit_stop, lines 100-120, on the car: stationary is the time drawn.
start_pit_stop(car, stationary) ==
  [car EXCEPT !.in_pit = TRUE, !.pit_time_remaining_s = stationary,
              !.pit_stops = car.pit_stops + 1, !.last_pit_lap = car.lap,
              !.tyre = TyreFresh]

\* Lines 129-134 of step: a car in the pit.
InPit(car, dt_seconds) ==
  The({[car EXCEPT !.pit_time_remaining_s = left, !.speed_mps = 0,
                   !.in_pit = ~(left <= 0)] :
         left \in {Max2(0, DAdd(car.pit_time_remaining_s, -dt_seconds))}})

\* Lines 161-166 of step: the car that has covered the race distance.
Flagged(car, race_distance) ==
  IF car.distance_total_m >= race_distance
    THEN [car EXCEPT !.finished = TRUE, !.distance_total_m = race_distance,
                     !.lap = config_.total_laps]
    ELSE car

\* Lines 141-166 of step: a car on the track driven at speed_mps.
Driven(car, dt_seconds, speed_mps) ==
  The({Flagged([car EXCEPT !.speed_mps = speed_mps,
                           !.distance_total_m = total,
                           !.lap = (total \div config_.track_length_m) + 1,
                           !.tyre = Max2(TyreFloor, car.tyre - 1)],
               config_.track_length_m * config_.total_laps) :
         total \in {DAdd(car.distance_total_m, speed_mps * dt_seconds)}})

\* One iteration of the loop of step (lines 126-167) on car i, with the
\* draws of random_unit: the car afterwards, and whether a stop started.
RaceCarStep(car, dt_seconds, speed_mps, stationary) ==
  IF car.finished THEN [car |-> car, pitted |-> FALSE]
  ELSE IF car.in_pit THEN [car |-> InPit(car, dt_seconds), pitted |-> FALSE]
  ELSE IF should_pit(car)
    THEN [car |-> start_pit_stop(car, stationary), pitted |-> TRUE]
  ELSE [car |-> Driven(car, dt_seconds, speed_mps), pitted |-> FALSE]

\* The pit events the cars of after add to events, in the order of the cars.
RECURSIVE PitEvents(_, _, _)
PitEvents(events, after, i) ==
  IF i > Len(after) THEN events
  ELSE PitEvents(IF after[i].pitted
                   THEN Append(events, [driver |-> i, lap |-> after[i].car.lap])
                   ELSE events,
                 after, i + 1)

\* RaceSimulator::RaceSimulator
RaceConstruct(config, drivers) ==
  /\ config_ = NoRace
  /\ config_' = config
  /\ cars_' = [i \in 1..Len(drivers) |-> RaceCar(drivers[i])]
  /\ pit_events_' = <<>>
  /\ simulation_time_seconds_' = 0
  /\ UNCHANGED ApiVars

\* RaceSimulator::step(dt_seconds), as step_default and run_for call it and
\* the loop of sim_cli's main goes on calling it.
RaceStep ==
  /\ config_ # NoRace
  /\ simulation_time_seconds_'
       = DAdd(simulation_time_seconds_, config_.dt_seconds)
  /\ \E speeds \in [1..Len(cars_) -> RaceSpeeds],
        stationary \in [1..Len(cars_) -> StationaryTimes] :
       \E after \in {[i \in 1..Len(cars_) |->
                        RaceCarStep(cars_[i], config_.dt_seconds, speeds[i],
                                    stationary[i])]} :
         /\ cars_' = [i \in 1..Len(cars_) |-> after[i].car]
         /\ pit_events_' = PitEvents(pit_events_, after, 1)
  /\ UNCHANGED << config_, ApiVars >>

\* RaceSimulator::all_finished
all_finished == \A i \in 1..Len(cars_) : cars_[i].finished

\* The configurations with dt_seconds > 0, track_length_m > 0 and
\* total_laps >= 1, and the grids of one and two drivers.
MaxDrivers == 2
RaceConfigs ==
  { [track_length_m |-> len, total_laps |-> laps, dt_seconds |-> dt] :
      len \in {2, 4}, laps \in {1, 3}, dt \in {1, 3} }
RaceDrivers == { [planned_pit_laps |-> <<>>], [planned_pit_laps |-> <<1>>] }
RaceGrids == UNION { [1..n -> RaceDrivers] : n \in 1..MaxDrivers }

RaceNext ==
  \/ \E config \in RaceConfigs, drivers \in RaceGrids : RaceConstruct(config, drivers)
  \/ RaceStep

\* The loop of main calls run_for, and run_for calls step, for as long as a
\* car is unfinished.
RaceSpec == Init /\ [][RaceNext]_vars /\ WF_vars(RaceStep)

\* f1sim_step on an instance with one car, with the steps since the car's
\* last line crossing counted; these calls go on however long the lap.
LapStep(in) ==
  /\ Ready
  /\ car_count = 1
  /\ op' = "step"
  /\ \E r \in {StepCore(Core, << in >>)} :
       /\ Leaves(r)
       /\ since' = IF r.state.lap[1] # state.lap[1] THEN 0
                   ELSE Min2(since + 1, MaxSince)
  /\ session' = IF session.open
                  THEN [session EXCEPT !.steps = Min2(session.steps + 1, capacity + 1)]
                  ELSE session
  /\ batch' = NoBatch /\ ret_det' = FALSE /\ ret_batch' = ZeroResult
  /\ applied' = <<>>
  /\ UNCHANGED << handle, args, car_cfg_, stray, out_snapshot, rt_inputs,
                  dt_remainder_s, tick, config_, cars_, pit_events_,
                  simulation_time_seconds_, max_cars, capacity, track_, car_count,
                  capture_replay >>

\* The driver of these calls coasts or holds the throttle beyond its stop.
LapInputs == {ZeroInput, [throttle |-> 30, brake |-> -5, steer |-> 0]}

LapCreateArgs == {a \in BatchCreateArgs : a.track = TrackShort}

\* One car on a loaded track, stepped without end.
LapNext ==
  \/ \E a \in LapCreateArgs : Create(a, ConfigMaxCars, 0)
  \/ \E in \in LapInputs : LapStep(in)

LapSpec == Init /\ [][LapNext]_vars

\* The calls that change the columns, and the snapshot calls.
SnapshotNext ==
  \/ \E a \in CreateArgs, cap \in 0..MaxCapacity : Create(a, ConfigMaxCars, cap)
  \/ \E count \in 0..(ConfigMaxCars + 1) : SetCarCount(count)
  \/ \E inputs \in InputVectors : Step(inputs)
  \/ Spin
  \/ \E car_index \in 0..ConfigMaxCars, prior \in PriorSnapshots :
       Snapshot(car_index, prior)
  \/ \E car_index \in 0..ConfigMaxCars, prior \in PriorSnapshots :
       f1sim_snapshot(car_index, prior)

SnapshotSpec == Init /\ [][SnapshotNext]_vars

(***************************************************************************)
(* Properties.                                                             *)
(***************************************************************************)
\* The step from a state where no call is in progress to the state the
\* captured_deterministic call leaves.
DeterministicCall == pc = "ready" /\ op' = "captured_deterministic"

\* C1: from any state of a core with replay capacity >= 1, start_capture,
\* then one or more step calls, then captured_deterministic: the call
\* returns true.
C1_CaptureThenCheckReturnsTrue ==
  [][(DeterministicCall /\ capacity >= 1 /\ session.open /\ session.steps >= 1)
       => (pc' = "ready" /\ ret_det')]_vars

\* C2: after every step call that has returned, every active car has
\* 0 <= s_m < track.length.
C2_ArcLengthInRange ==
  (op = "step" /\ pc = "ready")
    => \A k \in 1..car_count : 0 <= state.s_m[k] /\ state.s_m[k] < track_.length_m

\* C2 happens: a step call has returned on a core with two active cars, the
\* first of which has crossed the line in it.
C2_Witness ==
  /\ op = "step" /\ pc = "ready" /\ car_count = 2
  /\ state.lap[1] >= 1 /\ state.speed_mps[1] > 0

\* C3: every step call on a handle create returned terminates: control
\* comes back to the caller.
C3_StepTerminates == [](op = "step" => <>(pc = "ready"))

\* C4: create returns a null handle whenever a config pointer is null, or
\* the track config has fewer than two nodes or a non-positive length.
C4_InvalidCreateReturnsNull ==
  (handle # "none"
     /\ (\/ args.sim_null \/ args.car_null \/ args.track_null
         \/ args.track.node_count < 2
         \/ args.track.length_m <= 0))
    => handle = "null"

\* C5: a run_batch_laps call with car_index < car_count and n_laps >= 1,
\* here on a core whose track was loaded, terminates.
C5_BatchTerminates == (pc = "batch" /\ track_.length_m > 0) ~> (pc = "ready")

\* C6: in every step run_batch_laps performs, here on a core whose track
\* was loaded, the synthesised input goes to car car_index and every other
\* active car receives the zero input.
C6_BatchInputGoesToCarIndex ==
  [][(pc = "batch" /\ track_.length_m > 0)
       => \A k \in 1..Len(applied') :
            applied'[k] = IF k - 1 = batch.car_index
                            THEN BatchInput(state, batch.car_index)
                            ELSE ZeroInput]_vars

\* The sum and the minimum of a sequence of lap times.
RECURSIVE SeqSum(_)
SeqSum(s) == IF s = <<>> THEN 0 ELSE Head(s) + SeqSum(Tail(s))
SeqMin(s) == CHOOSE x \in {s[k] : k \in 1..Len(s)} : \A k \in 1..Len(s) : x <= s[k]

C8_OverflowStillPasses ==
  [][(DeterministicCall /\ capacity >= 1 /\ session.open /\ session.clean
        /\ session.steps > capacity)
       => (Len(replay_frames) = capacity /\ pc' = "ready" /\ ret_det')]_vars

\* Car k (1-based) after reset followed by one step per frame, in order:
\* c is the car before the frames.
RECURSIVE ReplayedCar(_, _, _)
ReplayedCar(c, k, frames) ==
  IF frames = <<>> THEN c
  ELSE The({ReplayedCar(next, k, Tail(frames)) :
              next \in {StepCar(track_, c, InputFor(Head(frames), k - 1))}})

\* C9: when at least one frame is recorded, after captured_deterministic
\* has returned the per-car state is the state reset followed by step on
\* each recorded frame, in recording order, yields.
C9_StateIsReplayedState ==
  [][(DeterministicCall /\ replay_frames # <<>> /\ pc' = "ready")
       => \A k \in 1..car_count :
            CarAt(state', k - 1) = ReplayedCar(DefaultCar, k, replay_frames)]_vars

\* C9 happens: the call has returned after replaying two frames (capture
\* being on, it recorded them again) that moved the first of two cars.
C9_Witness ==
  /\ op = "captured_deterministic" /\ pc = "ready" /\ capture_replay
  /\ Len(replay_frames) = 2 /\ replay_frames[1] # replay_frames[2]
  /\ car_count = 2 /\ state.s_m[1] > 0

\* C10: with no frame in the replay buffer captured_deterministic returns
\* false and leaves every state column, the car count and the capture flag
\* as they were.
C10_EmptyBufferReturnsFalse ==
  [][(DeterministicCall /\ replay_frames = <<>>)
       => /\ pc' = "ready" /\ ~ret_det'
          /\ state' = state
          /\ car_count' = car_count
          /\ capture_replay' = capture_replay]_vars

\* C10 happens: the call has returned false on an empty buffer (capture
\* being on, a replay would have recorded its frames again) with a car in
\* motion.
C10_Witness ==
  /\ op = "captured_deterministic" /\ pc = "ready" /\ capture_replay
  /\ replay_frames = <<>> /\ ~ret_det
  /\ car_count >= 1 /\ state.speed_mps[1] > 0

\* The step from a state where no call is in progress to the state the
\* call named leaves or, for a call that runs a loop, enters its loop in.
Call(name) == pc = "ready" /\ op' = name

\* C11: start_replay_capture empties the replay buffer and turns capture
\* on; stop_replay_capture turns capture off and leaves the buffer as it
\* was; while capture is off a step, be it a step call or a step of
\* run_batch_laps, appends no frame.
C11_CaptureSwitch ==
  [][/\ Call("start_capture") => (capture_replay' /\ replay_frames' = <<>>)
     /\ Call("stop_capture") => (~capture_replay' /\ replay_frames' = replay_frames)
     /\ ((Call("step") \/ pc = "batch") /\ ~capture_replay)
          => replay_frames' = replay_frames]_vars

\* C11 happens: a step call has returned with capture off and room left in
\* a buffer that holds a frame recorded before capture was stopped.
C11_Witness ==
  /\ op = "step" /\ pc = "ready" /\ ~capture_replay
  /\ Len(replay_frames) = 1 /\ capacity = 2 /\ car_count >= 1

\* C12: the replay buffer never holds more than replay_capacity_steps
\* frames, and a step on a full buffer, be it a step call or a step of
\* run_batch_laps, leaves the recorded frames as they were.
C12_BufferBounded ==
  /\ [](Len(replay_frames) <= capacity)
  /\ [][((Call("step") \/ pc = "batch") /\ Len(replay_frames) = capacity)
          => replay_frames' = replay_frames]_vars

\* C12 happens: in one capture session more step calls than the capacity
\* have returned, and the buffer holds the two frames recorded first.
C12_Witness ==
  /\ op = "step" /\ pc = "ready" /\ capture_replay
  /\ session.open /\ session.steps > capacity
  /\ capacity = 2 /\ Len(replay_frames) = 2
  /\ replay_frames[1] # replay_frames[2]

\* C13: a run_batch_laps call with car_index >= car_count or n_laps = 0
\* returns the all-zero result and leaves every state column, the replay
\* buffer and the capture flag as they were.
C13_InvalidBatchIsNoOp ==
  [][\A car_index \in 0..ConfigMaxCars, laps \in 0..MaxBatchLaps :
       ((car_index >= car_count \/ laps = 0) /\ RunBatchLaps(car_index, laps))
         => /\ pc' = "ready"
            /\ ret_batch' = ZeroResult
            /\ state' = state
            /\ replay_frames' = replay_frames
            /\ capture_replay' = capture_replay]_vars

\* C13 happens: a call has returned without entering its loop, on a core
\* with a car in motion, a recorded frame and capture on.
C13_Witness ==
  /\ op = "run_batch_laps" /\ pc = "ready" /\ batch = NoBatch
  /\ ret_batch = ZeroResult /\ capture_replay /\ replay_frames # <<>>
  /\ car_count >= 1 /\ state.speed_mps[1] > 0

\* C14: a snapshot call with car_index >= car_count is a no-op, through
\* SimulationCore::Snapshot and through f1sim_snapshot: the caller's struct
\* keeps the values it held before the call, and the core is unchanged.
C14_OutOfRangeSnapshotIsNoOp ==
  [][\A car_index \in 0..ConfigMaxCars, prior \in PriorSnapshots :
       (/\ car_index >= car_count
        /\ Snapshot(car_index, prior) \/ f1sim_snapshot(car_index, prior))
         => /\ out_snapshot' = prior
            /\ state' = state
            /\ car_count' = car_count
            /\ replay_frames' = replay_frames
            /\ capture_replay' = capture_replay]_vars

\* C15: in an instance created through the C API or the embedded init,
\* with any gear_count configured, a car's gear never exceeds the size of
\* the gear-ratio table, and the index line 117 computes from it to read
\* the table is within the table.
C15_GearWithinTable ==
  handle = "live"
    => \A k \in 1..car_count :
         /\ state.gear[k] <= kMaxGears
         /\ GearIdx(state.gear[k]) \in 0..(kMaxGears - 1)

\* C16: in every reachable state every active car's gear satisfies
\* 1 <= gear <= gear_count of the car configuration.
C16_GearInRange ==
  handle = "live"
    => \A k \in 1..car_count :
         1 <= state.gear[k] /\ state.gear[k] <= car_cfg_.gear_count

\* C16 as the code has it: 1 <= gear <= max(1, gear_count); a car of a
\* configuration with no gears stays in gear 1.
C16_GearInRangeOrFirst ==
  handle = "live"
    => \A k \in 1..car_count :
         1 <= state.gear[k] /\ state.gear[k] <= Max2(1, car_cfg_.gear_count)

\* C16 happens: a car in the top gear of two, with the engine above the
\* up-shift point, has been stepped and is still in the top gear.
C16_Witness ==
  /\ handle = "live" /\ op = "step" /\ pc = "ready" /\ car_count >= 1
  /\ car_cfg_.gear_count = 2 /\ state.gear[1] = 2
  /\ state.engine_rpm[1] > car_cfg_.shift_rpm_up /\ state.lap_time_s[1] >= 2

\* Whether the columns st are twelve, each of length count, every entry
\* at its default: 0, but 1 for gear and kMinRpm for engine_rpm.
AllDefault(st, count) ==
  /\ Cardinality(DOMAIN st) = 12
  /\ \A f \in DOMAIN st :
       /\ Len(st[f]) = count
       /\ \A k \in 1..count :
            st[f][k] = IF f = "gear" THEN 1
                       ELSE IF f = "engine_rpm" THEN kMinRpm ELSE 0

\* C17: all twelve columns have length car_count and car_count <=
\* max_cars; set_car_count(n) sets car_count to min(n, max_cars) and every
\* entry of every column to its default.
C17_ColumnsSized ==
  /\ [](/\ Cardinality(DOMAIN state) = 12
        /\ \A f \in DOMAIN state : Len(state[f]) = car_count
        /\ car_count <= max_cars)
  /\ [][\A count \in 0..(ConfigMaxCars + 1) :
          SetCarCount(count)
            => /\ car_count' = (IF count < max_cars THEN count ELSE max_cars)
               /\ AllDefault(state', car_count')]_vars

\* C17 happens: set_car_count has returned, having sized the columns for
\* two cars, on a core whose buffer holds a frame of earlier steps.
C17_Witness ==
  /\ op = "set_car_count" /\ car_count = ConfigMaxCars
  /\ replay_frames # <<>> /\ Len(state.gear) = 2

\* C18: reset sets every entry of every column to its default, leaves
\* car_count and the capture flag as they were, and empties the replay
\* buffer.
C18_ResetEffect ==
  [][Reset => /\ AllDefault(state', car_count)
              /\ car_count' = car_count
              /\ capture_replay' = capture_replay
              /\ replay_frames' = <<>>]_vars

\* C18 happens: reset has returned on a core with two cars and capture on.
C18_Witness ==
  /\ op = "reset" /\ car_count = 2 /\ capture_replay
  /\ replay_frames = <<>> /\ state.speed_mps = <<0, 0>>

\* Whether car k (1-based) is where reset puts it.
AtRest(st, k) ==
  /\ st.x_m[k] = 0 /\ st.y_m[k] = 0 /\ st.yaw_rad[k] = 0
  /\ st.s_m[k] = 0 /\ st.speed_mps[k] = 0 /\ st.lap[k] = 0

\* C19: from the reset state, after any number of steps in which a car
\* receives zero input, that car still has x = 0, y = 0, yaw = 0, s = 0,
\* speed = 0 and lap = 0: reset and set_car_count put every car there, and
\* a step that returns, be it a step call with any inputs or a step of
\* run_batch_laps, keeps a car there when it gives the car zero input.
C19_ZeroInputStaysAtRest ==
  /\ [](Ready =>
         \A inputs \in InputVectors :
           \E r \in {StepCore(Core, inputs)} :
             \A k \in 1..car_count :
               (r.spin < 0 /\ InputFor(inputs, k - 1) = ZeroInput /\ AtRest(state, k))
                 => AtRest(r.state, k))
  /\ [][/\ (Reset \/ Call("set_car_count"))
             => \A k \in 1..car_count' : AtRest(state', k)
        /\ \A k \in 1..car_count :
             (/\ pc = "batch" /\ pc' # "spin" /\ k <= Len(applied')
              /\ applied'[k] = ZeroInput /\ AtRest(state, k))
               => AtRest(state', k)]_vars

\* C19 happens: two step calls have returned in which the second of two
\* cars had zero input and the first was driven.
C19_Witness ==
  /\ op = "step" /\ pc = "ready" /\ car_count = 2
  /\ AtRest(state, 2) /\ state.lap_time_s[2] = 2
  /\ state.speed_mps[1] > 0

\* A driver input with each field clamped to its range.
Clamped(in) ==
  [throttle |-> (IF in.throttle < 0 THEN 0
                 ELSE IF in.throttle > InputScale THEN InputScale ELSE in.throttle),
   brake |-> (IF in.brake < 0 THEN 0
              ELSE IF in.brake > InputScale THEN InputScale ELSE in.brake),
   steer |-> (IF in.steer < -InputScale THEN -InputScale
              ELSE IF in.steer > InputScale THEN InputScale ELSE in.steer)]

\* C20: for any driver inputs, out of range or not, the columns after step
\* are the columns after step with each input clamped to its range, from
\* the same state.
C20_ClampedInputSameState ==
  Ready =>
    \A inputs \in InputVectors :
      \E r \in {StepCore(Core, inputs)},
         rc \in {StepCore(Core, [k \in 1..Len(inputs) |-> Clamped(inputs[k])])} :
        r.state = rc.state /\ r.spin = rc.spin

\* C20 happens: a step call with throttle above full travel, recorded in
\* the one frame of the buffer, has returned and set the car in motion.
C20_Witness ==
  /\ op = "step" /\ pc = "ready" /\ capture_replay /\ capacity = 2
  /\ session.open /\ session.steps = 1 /\ Len(replay_frames) = 1
  /\ replay_frames[1][1].throttle > InputScale
  /\ replay_frames[1][1].brake < 0
  /\ state.speed_mps[1] > 0

\* A step that returns: a step call, or a step of run_batch_laps.
ReturnedStep ==
  \/ Call("step") /\ pc' = "ready"
  \/ pc = "batch" /\ pc' # "spin"

\* C21: across every step that returns, each car's lap counter does not
\* decrease, and a car's last_lap_time_s changes only in a step in which
\* that car's lap counter increases.
C21_LapMonotone ==
  [][ReturnedStep
       => \A k \in 1..car_count :
            /\ state'.lap[k] >= state.lap[k]
            /\ state'.last_lap_time_s[k] # state.last_lap_time_s[k]
                 => state'.lap[k] > state.lap[k]]_vars

\* C22: run_batch_laps takes one sample for each increment of the lap
\* counter of car car_index, in the step of the increment, also when one
\* step carries the car across the line more than once: after every step
\* of the call the samples taken are as many as the laps the car has
\* completed since the reset, and on return they are n_laps.
C22_OneSamplePerLap ==
  (op = "run_batch_laps" /\ batch.laps >= 1 /\ pc # "spin")
    => /\ batch.done = state.lap[batch.car_index + 1]
       /\ pc = "ready" => state.lap[batch.car_index + 1] = batch.laps

\* C23: whenever a car's lap counter increases in a step, last_lap_time_s
\* afterwards is the duration of the lap just completed, fixed_dt times
\* the number of steps between the car's two most recent line crossings
\* (none when both are in this step), to within one fixed_dt.
C23_LastLapTimeIsLapDuration ==
  [][(Call("step") /\ pc' = "ready" /\ car_count = 1 /\ since < MaxSince
        /\ state'.lap[1] # state.lap[1])
       => Abs(state'.last_lap_time_s[1]
                - (IF state'.lap[1] = (state.lap[1] + 1) % LapModulus
                     THEN FixedDt * (since + 1) ELSE 0)) <= FixedDt]_vars

Accumulated == dt_remainder_s + Max2(0, tick'.dt)

\* C25: each step_sim(dt) call adds max(0, dt) to the remainder, a negative
\* dt adding nothing, and then runs one fixed step per whole fixed_dt in
\* the remainder, taking fixed_dt off each time, and never more than the
\* ceiling of fixed steps: the lap clock of a car that stays on its lap has
\* advanced by fixed_dt for each of them.
C25_AccumulatorRunsWholeSteps ==
  [][(Call("step_sim") /\ pc' = "ready")
       => /\ tick'.steps = Min2(Accumulated \div FixedTicks, kMaxSteps)
          /\ dt_remainder_s' = Accumulated - tick'.steps * FixedTicks
          /\ tick'.dt < 0
               => /\ tick'.steps = Min2(dt_remainder_s \div FixedTicks, kMaxSteps)
                  /\ dt_remainder_s' = dt_remainder_s - tick'.steps * FixedTicks
          /\ \A k \in 1..car_count :
               state'.lap[k] = state.lap[k]
                 => state'.lap_time_s[k]
                      = state.lap_time_s[k] + tick'.steps * FixedDt]_vars

\* C25 happens: a step_sim call with more time than the ceiling allows has
\* run the ceiling of fixed steps and has returned.
C25_Witness ==
  /\ handle = "live" /\ op = "step_sim" /\ pc = "ready" /\ car_count = 2
  /\ tick.dt = 7 /\ tick.steps = kMaxSteps /\ dt_remainder_s >= FixedTicks
  /\ state.lap[1] = 0 /\ state.lap_time_s[1] >= kMaxSteps * FixedDt

\* C26: a step_sim call that stops at the ceiling of fixed steps leaves a
\* remainder below fixed_dt, the time in excess being discarded; a call
\* that does not reach the ceiling discards no accumulated time.
C26_ExcessDiscardedAtCeiling ==
  [][(Call("step_sim") /\ pc' = "ready")
       => /\ tick'.steps = kMaxSteps => dt_remainder_s' < FixedTicks
          /\ tick'.steps < kMaxSteps
               => dt_remainder_s' = Accumulated - tick'.steps * FixedTicks]_vars

\* The loop with the inputs of the AI cars computed again before each
\* fixed step.
RECURSIVE FixedStepsEachAi(_, _, _)
FixedStepsEachAi(run, ins, max_steps) ==
  IF run.rem >= FixedTicks /\ max_steps > 0 /\ run.core.spin < 0
    THEN The({FixedStepsEachAi([core |-> StepCore(run.core, now),
                                rem |-> run.rem - FixedTicks,
                                steps |-> run.steps + 1], now, max_steps - 1) :
               now \in {update_ai_inputs(ins, run.core.state)}})
    ELSE run

\* C27: before each fixed step a step_sim call runs, the inputs of the AI
\* cars i >= 1 are computed again from the car's s_m and speed_mps, car 0
\* keeping what set_controls stored: the call leaves the columns as the
\* loop that computes them before each fixed step does.
C27_AiInputsPerFixedStep ==
  [][(Call("step_sim") /\ pc' = "ready")
       => /\ state' = FixedStepsEachAi([core |-> Core, rem |-> Accumulated,
                                        steps |-> 0], rt_inputs, kMaxSteps).core.state
          /\ rt_inputs # <<>> => rt_inputs'[1] = rt_inputs[1]]_vars

\* The frames of the buffer are again the ones it held before a
\* captured_deterministic call that found a frame in it, if capture is on;
\* the buffer is empty if capture is off.
ReplayRestoresFrames ==
  [][(Call("captured_deterministic") /\ pc' = "ready" /\ replay_frames # <<>>)
       => replay_frames' = (IF capture_replay THEN replay_frames ELSE <<>>)]_vars

\* A captured_deterministic call made at once after one that found a frame
\* returns what that one returned if capture is on, and false if it is off.
RepeatedReplayReturnsSame ==
  (op = "captured_deterministic" /\ pc = "ready")
    => /\ (capture_replay /\ replay_frames # <<>>) => ReplayResult.value = ret_det
       /\ ~capture_replay => ~ReplayResult.value

\* C28: after a captured_deterministic call that found at least one frame,
\* with capture on the buffer holds the frames it held before the call, in
\* the same order, and a call repeated at once returns the same value;
\* with capture off the buffer is empty and a call repeated at once returns
\* false.
C28_ReplayKeepsFrames == []RepeatedReplayReturnsSame /\ ReplayRestoresFrames

\* C29: the capture flag is changed by start_replay_capture and
\* stop_replay_capture alone; set_car_count changes neither the flag nor
\* the replay buffer; every frame a step records has as many entries as
\* car_count is when it is recorded.
C29_CaptureFlagAndFrameSize ==
  [][/\ capture_replay' # capture_replay
          => Call("start_capture") \/ Call("stop_capture")
     /\ Call("set_car_count")
          => capture_replay' = capture_replay /\ replay_frames' = replay_frames
     /\ \A i \in 1..Len(replay_frames') :
          (i > Len(replay_frames) \/ replay_frames'[i] # replay_frames[i])
            => Len(replay_frames'[i]) = car_count']_vars

\* C29 happens: set_car_count has returned with capture on and the buffer
\* holding a frame recorded for another car count.
C29_Witness ==
  /\ handle = "live" /\ op = "set_car_count" /\ capture_replay
  /\ replay_frames # <<>> /\ Len(replay_frames[1]) # car_count

\* C30: with dt_seconds > 0, track_length_m > 0 and total_laps >= 1 the
\* step calls in the end make every car finished; a car in the pit leaves
\* it after finitely many steps, a car starts at most one pit stop on any
\* one lap, and a finished car is not changed again.
C30_EveryCarFinishes ==
  /\ (config_ # NoRace) ~> all_finished
  /\ \A i \in 1..MaxDrivers :
       (i <= Len(cars_) /\ cars_[i].in_pit) ~> (i <= Len(cars_) /\ ~cars_[i].in_pit)
  /\ [](\A j, k \in 1..Len(pit_events_) :
          (pit_events_[j].driver = pit_events_[k].driver
             /\ pit_events_[j].lap = pit_events_[k].lap) => j = k)
  /\ [][\A i \in 1..Len(cars_) : cars_[i].finished => cars_'[i] = cars_[i]]_vars


====
